---------------------------- MODULE Spec2Model ----------------------------
(***************************************************************************)
(* A model of the Drupal 11 installer (src/main.go).  The installer is a   *)
(* single sequential process: main calls one step after the other, every   *)
(* step drives external commands, prompts or file operations, and main     *)
(* exits on the first fatal failure.                                       *)
(*                                                                         *)
(* Text is modelled as a sequence of one-character strings, so that the    *)
(* string functions the code calls (TrimSpace, ToLower, ReplaceAll,        *)
(* filepath.Join) are computed and not assumed.  A path is the sequence of *)
(* its segments below the root.  Every externally visible effect of a run  *)
(* is appended to the history variable log.                                *)
(***************************************************************************)
EXTENDS Integers, Sequences, FiniteSets, TLC

VARIABLES
    pc,             \* the step main is about to call, or "exited"
    exitCode,       \* the process exit code; NoExit while running
    dockerProvider, \* main's dockerProvider; "" before the prompt
    tools,          \* what the machine has installed and running
    stdinLeft,      \* complete lines not yet read from standard input
    projectPath,    \* main's projectPath; <<>> before initDrupalProject
    fs,             \* the part of the project tree the installer touches
    siteURL,        \* main's siteURL
    log             \* history: every prompt, command, file operation, message

vars == <<pc, exitCode, dockerProvider, tools, stdinLeft, projectPath, fs,
          siteURL, log>>

---------------------------------------------------------------------------
(* Bounds of the model *)

\* lines that standard input holds at most before it ends
MaxStdinLines == 3
\* length of the project names drawn in SpecName
MaxNameLen == 3
\* number of pieces the settings contents of SpecSettings are built from
MaxPieces == 3
\* length of the "raw" arrays drawn in SpecSiteURL
MaxRawLen == 2

\* length of the provider choices drawn in SpecProvider
MaxChoiceLen == 3

NoExit == -1

---------------------------------------------------------------------------
(* Text *)

OldFragment == <<"s", "i", "t", "e", "s", "/", "d", "e", "f", "a", "u", "l", "t", "/", "f", "i", "l", "e", "s", "/", "s", "y", "n", "c">>
NewFragment == <<".", ".", "/", "c", "o", "n", "f", "i", "g", "/", "s", "y", "n", "c">>
SegConfig == <<"c", "o", "n", "f", "i", "g">>
SegSync == <<"s", "y", "n", "c">>
SegWeb == <<"w", "e", "b">>
SegSites == <<"s", "i", "t", "e", "s">>
SegDefault == <<"d", "e", "f", "a", "u", "l", "t">>
SegSettingsDdevPhp == <<"s", "e", "t", "t", "i", "n", "g", "s", ".", "d", "d", "e", "v", ".", "p", "h", "p">>
SegDotDdev == <<".", "d", "d", "e", "v">>
SegIndicatorYml == <<"e", "n", "v", "i", "r", "o", "n", "m", "e", "n", "t", "_", "i", "n", "d", "i", "c", "a", "t", "o", "r", ".", "i", "n", "d", "i", "c", "a", "t", "o", "r", ".", "y", "m", "l">>
SegSettingsYml == <<"e", "n", "v", "i", "r", "o", "n", "m", "e", "n", "t", "_", "i", "n", "d", "i", "c", "a", "t", "o", "r", ".", "s", "e", "t", "t", "i", "n", "g", "s", ".", "y", "m", "l">>
UpperLetters == <<"A", "B", "C", "D", "E", "F", "G", "H", "I", "J", "K", "L", "M", "N", "O", "P", "Q", "R", "S", "T", "U", "V", "W", "X", "Y", "Z">>
LowerLetters == <<"a", "b", "c", "d", "e", "f", "g", "h", "i", "j", "k", "l", "m", "n", "o", "p", "q", "r", "s", "t", "u", "v", "w", "x", "y", "z">>

\* unicode.IsSpace on the characters the model draws
IsSpace(c) == c \in {" ", "\t", "\n", "\r"}

RECURSIVE TrimLeft(_)
TrimLeft(s) ==
    IF s # <<>> /\ IsSpace(s[1]) THEN TrimLeft(Tail(s)) ELSE s

RECURSIVE TrimRight(_)
TrimRight(s) ==
    IF s # <<>> /\ IsSpace(s[Len(s)])
    THEN TrimRight(SubSeq(s, 1, Len(s) - 1))
    ELSE s

\* strings.TrimSpace
TrimSpace(s) == TrimRight(TrimLeft(s))

ToLowerChar(c) ==
    IF \E i \in 1..Len(UpperLetters) : UpperLetters[i] = c
    THEN LowerLetters[CHOOSE i \in 1..Len(UpperLetters) : UpperLetters[i] = c]
    ELSE c

\* strings.ToLower (ASCII)
ToLower(s) == [i \in 1..Len(s) |-> ToLowerChar(s[i])]

HasPrefix(s, p) == Len(s) >= Len(p) /\ SubSeq(s, 1, Len(p)) = p

\* strings.Replace(s, old, new, 1): the first occurrence only
RECURSIVE ReplaceFirst(_, _, _)
ReplaceFirst(s, old, new) ==
    IF Len(s) < Len(old) \/ old = <<>> THEN s
    ELSE IF HasPrefix(s, old)
         THEN new \o SubSeq(s, Len(old) + 1, Len(s))
         ELSE <<s[1]>> \o ReplaceFirst(Tail(s), old, new)

\* strings.ReplaceAll(s, old, new) for a non-empty old: the non-overlapping
\* occurrences of old, found from the left, are each replaced by new
RECURSIVE ReplaceAll(_, _, _)
ReplaceAll(s, old, new) ==
    IF Len(s) < Len(old) \/ old = <<>> THEN s
    ELSE IF HasPrefix(s, old)
         THEN new \o ReplaceAll(SubSeq(s, Len(old) + 1, Len(s)), old, new)
         ELSE <<s[1]>> \o ReplaceAll(Tail(s), old, new)

---------------------------------------------------------------------------
(* Paths: filepath.Join cleans the joined path *)

\* the segments of s between separators; acc is the segment being read
RECURSIVE SplitPath(_, _)
SplitPath(s, acc) ==
    IF s = <<>> THEN <<acc>>
    ELSE IF s[1] = "/" THEN <<acc>> \o SplitPath(Tail(s), <<>>)
    ELSE SplitPath(Tail(s), Append(acc, s[1]))

\* filepath.Clean of a rooted path, segment by segment: empty and "."
\* segments vanish, ".." removes the segment before it (none at the root)
RECURSIVE CleanSegs(_, _)
CleanSegs(segs, out) ==
    IF segs = <<>> THEN out
    ELSE LET h == segs[1] IN
         IF h = <<>> \/ h = <<".">> THEN CleanSegs(Tail(segs), out)
         ELSE IF h = <<".", ".">>
              THEN CleanSegs(Tail(segs),
                             IF out = <<>> THEN out
                             ELSE SubSeq(out, 1, Len(out) - 1))
              ELSE CleanSegs(Tail(segs), Append(out, h))

\* filepath.Join(dir, elem) for a cleaned absolute dir and one text element
JoinText(dir, elem) ==
    IF elem = <<>> THEN dir ELSE CleanSegs(dir \o SplitPath(elem, <<>>), <<>>)

\* filepath.Join(dir, seg1, ..., segn) for plain segment names
JoinSegs(dir, segs) == dir \o segs

\* os.Getwd(): the directory the installer is run in
Cwd == << <<"h">>, <<"w">> >>


---------------------------------------------------------------------------
(* JSON: what json.Unmarshal makes of the output of `ddev describe`.  A    *)
(* value carries its JSON type t, its text s when it is a string, and its  *)
(* members kids: the elements of an array, or the key/value pairs of an    *)
(* object in document order.                                               *)

JV(t, s, kids) == [t |-> t, s |-> s, kids |-> kids]
Member(k, v) == [k |-> k, v |-> v]

JNull == JV("null", "", <<>>)
JNum == JV("number", "", <<>>)
JStr(s) == JV("string", s, <<>>)
JArr(elems) == JV("array", "", [i \in 1..Len(elems) |-> Member("", elems[i])])
JObj(members) == JV("object", "", members)
\* output that is no JSON document at all (empty output included)
Malformed == JV("malformed", "", <<>>)

\* what `ddev describe --json-output` did: err, it exited non-zero or could
\* not be run; out, what it wrote to standard output
Outcome(err, out) == [err |-> err, out |-> out]

---------------------------------------------------------------------------
(* The history of a run *)

NoArg == <<>>

Event(kind, cmd, arg, dir, ok, text, line, took) ==
    [kind |-> kind, cmd |-> cmd, arg |-> arg, dir |-> dir, ok |-> ok,
     text |-> text, line |-> line, took |-> took, out |-> JNull]

\* exec.Command(cmd...).Run() with working directory dir; ok: it exited zero
Exec(cmd, dir, ok) == Event("exec", cmd, NoArg, dir, ok, <<>>, 0, 0)

\* the same for a command that is handed a path as its last argument
ExecOn(cmd, arg, dir, ok) == Event("exec", cmd, arg, dir, ok, <<>>, 0, 0)

\* a prompt and the string its ReadString returned: input line number line
\* (0 at end of input), took lines pulled off standard input by the reader
Prompt(which, text, line, took) ==
    Event("prompt", <<which>>, NoArg, Cwd, line > 0, text, line, took)

\* printStatus, printSuccess, printWarning, printError, fmt.Println
Say(level, msg) == Event("print", <<level, msg>>, NoArg, Cwd, TRUE, <<>>, 0, 0)

\* what a step returned to main: ok is true, or a nil error
Return(fn, ok) == Event("return", <<fn>>, NoArg, Cwd, ok, <<>>, 0, 0)

\* os.MkdirAll, os.ReadFile, os.WriteFile on path, with the bytes moved
FileOp(op, path, ok, text) == Event(op, <<op>>, path, Cwd, ok, text, 0, 0)

\* cmd.Output() of a command whose Dir was left unset: it runs where the
\* installer runs
ExecOutput_InCwd(cmd, dir, outcome) ==
    [Event("exec", cmd, NoArg, Cwd, ~outcome.err, <<>>, 0, 0)
        EXCEPT !.out = outcome.out]

\* cmd.Output() of a command in dir: what it wrote to standard output
ExecOutput(cmd, dir, outcome) ==
    [Event("exec", cmd, NoArg, dir, ~outcome.err, <<>>, 0, 0)
        EXCEPT !.out = outcome.out]

\* a message that shows a piece of text
SayText(level, msg, text) ==
    Event("print", <<level, msg>>, NoArg, Cwd, TRUE, text, 0, 0)

\* os.Exit(code), or main returning (code 0)
Exit(code) == Event("exit", <<"exit">>, NoArg, Cwd, code = 0, <<>>, code, 0)

\* the commands that only ask for information
QueryCommands ==
    { <<"brew", "list", "docker">>, <<"docker", "info">>,
      <<"colima", "status">>, <<"ddev", "version">>,
      <<"ddev", "describe", "--json-output">> }

IsExec(e) == e.kind = "exec"
StateChanging(e) == IsExec(e) /\ e.cmd \notin QueryCommands

RECURSIVE Consumed(_)
\* the lines of standard input the prompts of history h have pulled off it
Consumed(h) ==
    IF h = <<>> THEN 0
    ELSE Consumed(SubSeq(h, 1, Len(h) - 1))
         + (IF h[Len(h)].kind = "prompt" THEN h[Len(h)].took ELSE 0)

---------------------------------------------------------------------------
(* Control: main goes on to the next step, or the process exits *)

Goto(next, evs) ==
    /\ pc' = next
    /\ exitCode' = exitCode
    /\ log' = log \o evs

\* os.Exit(1)
Abort(evs) ==
    /\ pc' = "exited"
    /\ exitCode' = 1
    /\ log' = log \o evs \o <<Exit(1)>>

---------------------------------------------------------------------------
(* Standard input: each prompt wraps os.Stdin in a new bufio.Reader and    *)
(* calls ReadString('\n') once.  The reader's first Read takes what the    *)
(* descriptor holds at that moment: one line typed at a terminal, or       *)
(* several lines when they were piped in; ReadString returns the first     *)
(* line with its newline and the rest stays in the discarded reader.  At   *)
(* end of input ReadString returns "" and an error the code ignores.       *)

\* Reads(lines, text, took): a reader returns text, one of the typed lines
\* (given without their newline), and pulls took lines off standard input
ReadsEOF(text, took) == stdinLeft = 0 /\ text = <<>> /\ took = 0

ReadsLine(lines, text, took) ==
    /\ stdinLeft > 0
    /\ took \in 1..stdinLeft
    /\ \E l \in lines : text = l \o <<"\n">>

Reads(lines, text, took) == ReadsEOF(text, took) \/ ReadsLine(lines, text, took)

\* every string a reader can return for typed lines
Returned(lines) == {<<>>} \cup {l \o <<"\n">> : l \in lines}

PromptEvent(which, text, took) ==
    Prompt(which, text, IF took = 0 THEN 0 ELSE Consumed(log) + 1, took)

---------------------------------------------------------------------------
(* selectDockerProvider *)

\* the answers typed in a whole run
RunProviders == { <<"1">>, <<"2">> }

\* the comparison made on the string as it was read
ProviderOf_Untrimmed(response) ==
    IF response = <<"2">> THEN "colima" ELSE "docker"

ProviderOf(response) ==
    IF TrimSpace(response) = <<"2">> THEN "colima" ELSE "docker"

SelectDockerProvider(responses) ==
    /\ pc = "selectDockerProvider"
    /\ \E text \in Returned(responses), took \in 0..MaxStdinLines :
        /\ Reads(responses, text, took)
        /\ stdinLeft' = stdinLeft - took
        /\ dockerProvider' = ProviderOf(text)
        /\ Goto("checkPrerequisites",
                <<PromptEvent("provider", text, took),
                  Return("selectDockerProvider", TRUE)>>)
    /\ UNCHANGED <<tools, projectPath, fs, siteURL>>

---------------------------------------------------------------------------
(* checkPrerequisites, checkHomebrew *)

\* brewPackageInstalled("docker"): `brew list docker` exits zero
BrewListDocker == Exec(<<"brew", "list", "docker">>, Cwd,
                       tools.brew /\ tools.dockerPkg)

CheckPrerequisites ==
    /\ pc = "checkPrerequisites"
    /\ Goto("checkHomebrew",
            <<Say(IF tools.brew THEN "success" ELSE "error", "prereq homebrew")>>
            \o (IF dockerProvider = "docker"
                THEN <<BrewListDocker,
                       Say(IF tools.brew /\ tools.dockerPkg
                           THEN "success" ELSE "warning", "prereq docker")>>
                ELSE <<Say(IF tools.colima THEN "success" ELSE "warning",
                           "prereq colima")>>)
            \o <<Say(IF tools.ddev THEN "success" ELSE "warning", "prereq ddev")>>)
    /\ UNCHANGED <<dockerProvider, tools, stdinLeft, projectPath, fs, siteURL>>

\* main ignoring what checkHomebrew returned
CheckHomebrew_Advisory ==
    /\ pc = "checkHomebrew"
    /\ Goto("installBackend",
            IF ~tools.brew
            THEN <<Say("error", "Homebrew is not installed"),
                   Return("checkHomebrew", FALSE)>>
            ELSE <<Say("success", "Homebrew is installed"),
                   Return("checkHomebrew", TRUE)>>)
    /\ UNCHANGED <<dockerProvider, tools, stdinLeft, projectPath, fs, siteURL>>

CheckHomebrew ==
    /\ pc = "checkHomebrew"
    /\ IF ~tools.brew
       THEN Abort(<<Say("error", "Homebrew is not installed"),
                    Return("checkHomebrew", FALSE)>>)
       ELSE Goto("installBackend",
                 <<Say("success", "Homebrew is installed"),
                   Return("checkHomebrew", TRUE)>>)
    /\ UNCHANGED <<dockerProvider, tools, stdinLeft, projectPath, fs, siteURL>>

---------------------------------------------------------------------------
(* The Docker Desktop branch of main *)

\* installDocker without the early return of line 82
InstallDocker_Reinstall ==
    /\ pc = "installBackend"
    /\ dockerProvider = "docker"
    /\ \E ok \in BOOLEAN :
        /\ tools' = [tools EXCEPT !.dockerPkg = @ \/ ok]
        /\ Goto("checkBackendRunning",
                <<BrewListDocker,
                  Exec(<<"brew", "install", "docker">>, Cwd, ok),
                  Return("installDocker", FALSE)>>)
    /\ UNCHANGED <<dockerProvider, stdinLeft, projectPath, fs, siteURL>>

\* main exiting when the install of Docker Desktop failed
InstallDocker_Fatal ==
    /\ pc = "installBackend"
    /\ dockerProvider = "docker"
    /\ IF tools.brew /\ tools.dockerPkg
       THEN /\ Goto("checkBackendRunning",
                    <<BrewListDocker,
                      Say("success", "Docker Desktop is already installed"),
                      Return("installDocker", TRUE)>>)
            /\ tools' = tools
       ELSE \E ok \in BOOLEAN :
            /\ tools' = [tools EXCEPT !.dockerPkg = ok]
            /\ IF ok
               THEN Goto("checkBackendRunning",
                         <<BrewListDocker,
                           Exec(<<"brew", "install", "docker">>, Cwd, TRUE),
                           Say("success", "Docker Desktop installed"),
                           Return("installDocker", TRUE)>>)
               ELSE Abort(<<BrewListDocker,
                            Exec(<<"brew", "install", "docker">>, Cwd, FALSE),
                            Say("error", "Failed to install Docker Desktop"),
                            Return("installDocker", FALSE)>>)
    /\ UNCHANGED <<dockerProvider, stdinLeft, projectPath, fs, siteURL>>

InstallDocker ==
    /\ pc = "installBackend"
    /\ dockerProvider = "docker"
    /\ IF tools.brew /\ tools.dockerPkg
       THEN /\ Goto("checkBackendRunning",
                    <<BrewListDocker,
                      Say("success", "Docker Desktop is already installed"),
                      Return("installDocker", TRUE)>>)
            /\ tools' = tools
       ELSE \E ok \in BOOLEAN :
            /\ tools' = [tools EXCEPT !.dockerPkg = ok]
            /\ Goto("checkBackendRunning",
                    <<BrewListDocker,
                      Exec(<<"brew", "install", "docker">>, Cwd, ok),
                      IF ok THEN Say("success", "Docker Desktop installed")
                            ELSE Say("error", "Failed to install Docker Desktop"),
                      Return("installDocker", FALSE)>>)
    /\ UNCHANGED <<dockerProvider, stdinLeft, projectPath, fs, siteURL>>

CheckDockerRunning ==
    /\ pc = "checkBackendRunning"
    /\ dockerProvider = "docker"
    /\ IF tools.dockerUp
       THEN Goto("installDDEV",
                 <<Exec(<<"docker", "info">>, Cwd, TRUE),
                   Say("success", "Docker is running"),
                   Return("checkDockerRunning", TRUE)>>)
       ELSE Abort(<<Exec(<<"docker", "info">>, Cwd, FALSE),
                    Say("warning", "Docker is not running"),
                    Return("checkDockerRunning", FALSE),
                    Say("error", "Please start Docker Desktop")>>)
    /\ UNCHANGED <<dockerProvider, tools, stdinLeft, projectPath, fs, siteURL>>

---------------------------------------------------------------------------
(* The Colima branch of main *)

ColimaStatus == Exec(<<"colima", "status">>, Cwd, tools.colimaUp)

\* installColima trying the install a second time when the first failed
InstallColima_Retry ==
    /\ pc = "installBackend"
    /\ dockerProvider = "colima"
    /\ IF tools.colima
       THEN /\ Goto("checkBackendRunning",
                    <<Say("success", "Colima is already installed"),
                      Return("installColima", TRUE)>>)
            /\ tools' = tools
       ELSE \E ok, again \in BOOLEAN :
            /\ tools' = [tools EXCEPT !.colima = ok \/ again]
            /\ Goto("checkBackendRunning",
                    <<Exec(<<"brew", "install", "colima">>, Cwd, ok)>>
                    \o (IF ok THEN <<>>
                        ELSE <<Exec(<<"brew", "install", "colima">>, Cwd, again)>>)
                    \o <<Return("installColima", FALSE)>>)
    /\ UNCHANGED <<dockerProvider, stdinLeft, projectPath, fs, siteURL>>

InstallColima ==
    /\ pc = "installBackend"
    /\ dockerProvider = "colima"
    /\ IF tools.colima
       THEN /\ Goto("checkBackendRunning",
                    <<Say("success", "Colima is already installed"),
                      Return("installColima", TRUE)>>)
            /\ tools' = tools
       ELSE \E ok \in BOOLEAN :
            /\ tools' = [tools EXCEPT !.colima = ok]
            /\ Goto("checkBackendRunning",
                    <<Exec(<<"brew", "install", "colima">>, Cwd, ok),
                      IF ok THEN Say("success", "Colima installed")
                            ELSE Say("error", "Failed to install Colima"),
                      Return("installColima", FALSE)>>)
    /\ UNCHANGED <<dockerProvider, stdinLeft, projectPath, fs, siteURL>>

CheckColimaRunning ==
    /\ pc = "checkBackendRunning"
    /\ dockerProvider = "colima"
    /\ IF tools.colimaUp
       THEN Goto("installDDEV",
                 <<ColimaStatus, Say("success", "Colima is running"),
                   Return("checkColimaRunning", TRUE)>>)
       ELSE Goto("startColima",
                 <<ColimaStatus, Say("warning", "Colima is not running"),
                   Return("checkColimaRunning", FALSE)>>)
    /\ UNCHANGED <<dockerProvider, tools, stdinLeft, projectPath, fs, siteURL>>

\* Colima is a background service: one that was coming up when main asked
\* for its status can be up by the time startColima asks again
ColimaComesUp ==
    /\ pc \in {"startColima", "recheckColima"}
    /\ tools.colima /\ ~tools.colimaUp
    /\ tools' = [tools EXCEPT !.colimaUp = TRUE]
    /\ UNCHANGED <<pc, exitCode, dockerProvider, stdinLeft, projectPath, fs,
                   siteURL, log>>

\* startColima asking for the status only, as the Docker branch does
StartColima_NoStart ==
    /\ pc = "startColima"
    /\ tools' = tools
    /\ Goto("recheckColima", <<ColimaStatus, Return("startColima", TRUE)>>)
    /\ UNCHANGED <<dockerProvider, stdinLeft, projectPath, fs, siteURL>>

StartColima ==
    /\ pc = "startColima"
    /\ IF tools.colimaUp
       THEN /\ Goto("recheckColima",
                    <<ColimaStatus, Say("success", "Colima is already running"),
                      Return("startColima", TRUE)>>)
            /\ tools' = tools
       ELSE \E ok \in (IF tools.colima THEN BOOLEAN ELSE {FALSE}) :
            /\ tools' = [tools EXCEPT !.colimaUp = ok]
            /\ Goto("recheckColima",
                    <<ColimaStatus,
                      Exec(<<"colima", "start">>, Cwd, ok),
                      IF ok THEN Say("success", "Colima started")
                            ELSE Say("error", "Failed to start Colima"),
                      Return("startColima", TRUE)>>)
    /\ UNCHANGED <<dockerProvider, stdinLeft, projectPath, fs, siteURL>>

RecheckColima ==
    /\ pc = "recheckColima"
    /\ IF tools.colimaUp
       THEN Goto("installDDEV",
                 <<ColimaStatus, Say("success", "Colima is running"),
                   Return("checkColimaRunning", TRUE)>>)
       ELSE Abort(<<ColimaStatus, Say("warning", "Colima is not running"),
                    Return("checkColimaRunning", FALSE),
                    Say("error", "Failed to start Colima. Please start it manually")>>)
    /\ UNCHANGED <<dockerProvider, tools, stdinLeft, projectPath, fs, siteURL>>

---------------------------------------------------------------------------
(* installDDEV, checkDDEVVersion *)

InstallDDEV ==
    /\ pc = "installDDEV"
    /\ IF tools.ddev
       THEN /\ Goto("checkDDEVVersion",
                    <<Say("success", "DDEV is already installed"),
                      Return("installDDEV", TRUE)>>)
            /\ tools' = tools
       ELSE \E ok \in BOOLEAN :
            /\ tools' = [tools EXCEPT !.ddev = ok]
            /\ Abort(<<Exec(<<"brew", "install", "ddev/ddev/ddev">>, Cwd, ok),
                       IF ok THEN Say("success", "DDEV installed")
                             ELSE Say("error", "Failed to install DDEV"),
                       Return("installDDEV", FALSE)>>)
    /\ UNCHANGED <<dockerProvider, stdinLeft, projectPath, fs, siteURL>>

CheckDDEVVersion ==
    /\ pc = "checkDDEVVersion"
    /\ Goto("initDrupalProject",
            IF tools.ddev
            THEN <<Exec(<<"ddev", "version">>, Cwd, TRUE),
                   Say("success", "DDEV version")>>
            ELSE <<>>)
    /\ UNCHANGED <<dockerProvider, tools, stdinLeft, projectPath, fs, siteURL>>

---------------------------------------------------------------------------
(* initDrupalProject *)

\* the emptiness test made before the string is trimmed
NameRejected_Untrimmed(text) == text = <<>>

\* initDrupalProject turns the string it read down
NameRejected(text) == TrimSpace(text) = <<>>

\* the name without the lower-casing of line 215
ProjectNameOf_NoLower(text) ==
    ReplaceAll(TrimSpace(text), <<" ">>, <<"-">>)

\* the project name initDrupalProject derives from the string it read
ProjectNameOf(text) ==
    ReplaceAll(ToLower(TrimSpace(text)), <<" ">>, <<"-">>)

\* the names typed in a whole run
MySite == <<" ", " ", "M", "y", " ", "S", "i", "t", "e", " ", " ">>
RunNames == { <<" ", "\t">>, MySite }

ComposerCreateProject ==
    <<"composer", "create-project", "drupal/recommended-project:^11">>

InitDrupalProject(names) ==
    /\ pc = "initDrupalProject"
    /\ \E text \in Returned(names), took \in 0..MaxStdinLines :
        /\ Reads(names, text, took)
        /\ stdinLeft' = stdinLeft - took
        /\ IF NameRejected(text)
           THEN /\ Abort(<<PromptEvent("name", text, took),
                           Say("error", "Project name cannot be empty"),
                           Return("initDrupalProject", FALSE)>>)
                /\ UNCHANGED <<projectPath, fs>>
           ELSE \E cwdOk \in BOOLEAN, ok \in BOOLEAN, ddevDir \in BOOLEAN :
                LET name == ProjectNameOf(text)
                    path == JoinText(Cwd, name)
                    creating == SayText("info", "Creating Drupal project", name)
                IN
                IF ~cwdOk
                THEN /\ Abort(<<PromptEvent("name", text, took),
                                Say("error", "Failed to get current directory"),
                                Return("initDrupalProject", FALSE)>>)
                     /\ UNCHANGED <<projectPath, fs>>
                ELSE IF ~ok
                THEN /\ Abort(<<PromptEvent("name", text, took), creating,
                                ExecOn(ComposerCreateProject, path, Cwd, FALSE),
                                Say("error", "Failed to create Drupal project"),
                                Return("initDrupalProject", FALSE)>>)
                     /\ UNCHANGED <<projectPath, fs>>
                ELSE /\ Goto("initDDEVProject",
                             <<PromptEvent("name", text, took), creating,
                               ExecOn(ComposerCreateProject, path, Cwd, TRUE),
                               Say("success", "Drupal project initialized"),
                               Return("initDrupalProject", TRUE)>>)
                     /\ projectPath' = path
                     /\ fs' = [fs EXCEPT !.projectDir = TRUE,
                                         !.ddevDir = ddevDir]
    /\ UNCHANGED <<dockerProvider, tools, siteURL>>

---------------------------------------------------------------------------
(* initDDEVProject, startDDEV *)

DdevConfig ==
    <<"ddev", "config", "--project-type=drupal11", "--docroot=web",
      "--create-docroot">>

InitDDEVProject ==
    /\ pc = "initDDEVProject"
    /\ IF fs.ddevDir
       THEN /\ Goto("startDDEV",
                    <<Say("warning", ".ddev directory already exists"),
                      Return("initDDEVProject", TRUE)>>)
            /\ fs' = fs
       ELSE \E ok \in BOOLEAN :
            IF ok
            THEN /\ Goto("startDDEV",
                         <<Exec(DdevConfig, projectPath, TRUE),
                           Say("success", "DDEV project initialized"),
                           Return("initDDEVProject", TRUE)>>)
                 /\ fs' = [fs EXCEPT !.ddevDir = TRUE]
            ELSE /\ Abort(<<Exec(DdevConfig, projectPath, FALSE),
                            Say("error", "Failed to initialize DDEV project"),
                            Return("initDDEVProject", FALSE)>>)
                 /\ fs' = fs
    /\ UNCHANGED <<dockerProvider, tools, stdinLeft, projectPath, siteURL>>

\* a piece of settings text that is not the fragment
Filler == <<"$", "d", "=", "'">>

\* the settings.ddev.php contents `ddev start` leaves in a whole run
RunContents ==
    { Filler \o OldFragment \o <<"'">>,
      OldFragment \o <<"\n">> \o OldFragment }

\* `ddev start` generates web/sites/default/settings.ddev.php; what it
\* holds is DDEV's business
StartDDEV(contents) ==
    /\ pc = "startDDEV"
    /\ \E ok \in BOOLEAN :
        IF ok
        THEN /\ Goto("installDrupalDependencies",
                     <<Exec(<<"ddev", "start">>, projectPath, TRUE),
                       Say("success", "DDEV started"),
                       Return("startDDEV", TRUE)>>)
             /\ \/ fs' = [fs EXCEPT !.settingsExists = FALSE]
                \/ \E c \in contents :
                     fs' = [fs EXCEPT !.settingsExists = TRUE, !.settings = c]
        ELSE /\ Abort(<<Exec(<<"ddev", "start">>, projectPath, FALSE),
                        Say("error", "Failed to start DDEV"),
                        Return("startDDEV", FALSE)>>)
             /\ fs' = fs
    /\ UNCHANGED <<dockerProvider, tools, stdinLeft, projectPath, siteURL>>

---------------------------------------------------------------------------
(* installDrupalDependencies *)

packages ==
    << <<"composer", "install">>,
       <<"composer", "require", "drupal/core-dev", "--dev", "-W">>,
       <<"composer", "require", "drush/drush">>,
       <<"composer", "require", "drupal/admin_toolbar">>,
       <<"composer", "require", "drupal/token">>,
       <<"composer", "require", "drupal/pathauto">>,
       <<"composer", "require", "drupal/config_ignore">>,
       <<"composer", "require", "drupal/config_split">>,
       <<"composer", "require", "drupal/devel">>,
       <<"composer", "require", "drupal/environment_indicator">>,
       <<"composer", "require", "drupal/better_exposed_filters">>,
       <<"composer", "require", "drupal/key">>,
       <<"composer", "require", "drupal/webprofiler">>,
       <<"composer", "require", "drupal/diff:^2.0@beta">>,
       <<"composer", "require", "drupal/ultimate_cron:^2.0@beta">> >>

\* the loop without the return of line 342: every command is run
PackageRuns_KeepGoing(good) ==
    [i \in 1..Len(packages) |->
        Exec(<<"ddev">> \o packages[i], projectPath, i # good + 1)]

\* the commands the loop runs when the first `good` of them exit zero
PackageRuns(good) ==
    [i \in 1..(IF good < Len(packages) THEN good + 1 ELSE good) |->
        Exec(<<"ddev">> \o packages[i], projectPath, i <= good)]

InstallDrupalDependencies ==
    /\ pc = "installDrupalDependencies"
    /\ \E good \in 0..Len(packages) :
        IF good < Len(packages)
        THEN Abort(PackageRuns(good)
                   \o <<Say("error", "Failed to install"),
                        Return("installDrupalDependencies", FALSE)>>)
        ELSE Goto("setupDrupalSettings",
                  PackageRuns(good)
                  \o <<Say("success", "Drupal dependencies installed"),
                       Return("installDrupalDependencies", TRUE)>>)
    /\ UNCHANGED <<dockerProvider, tools, stdinLeft, projectPath, fs, siteURL>>

---------------------------------------------------------------------------
(* setupDrupalSettings *)

\* the rewrite with strings.Replace(..., 1) in place of ReplaceAll
RewriteSettings_First(content) ==
    ReplaceFirst(content, OldFragment, NewFragment)

\* the rewrite putting "../" before the fragment and keeping it
RewriteSettings_Prefixed(content) ==
    ReplaceAll(content, OldFragment, <<".", ".", "/">> \o OldFragment)

\* the rewrite of settings.ddev.php
RewriteSettings(content) == ReplaceAll(content, OldFragment, NewFragment)

ConfigSyncPath == JoinSegs(projectPath, <<SegConfig, SegSync>>)
SettingsPath ==
    JoinSegs(projectPath, <<SegWeb, SegSites, SegDefault, SegSettingsDdevPhp>>)
IndicatorPath == JoinSegs(ConfigSyncPath, <<SegIndicatorYml>>)
SettingsConfigPath == JoinSegs(ConfigSyncPath, <<SegSettingsYml>>)

\* the embedded payloads, by name
configIndicatorYML == <<"i", "n", "d", "i", "c", "a", "t", "o", "r">>
configSettingsYML == <<"s", "e", "t", "t", "i", "n", "g", "s">>

\* main going on to the site install after setupDrupalSettings failed
SetupFails_Warn(evs, msg) ==
    Goto("installDrupalSite",
         evs \o <<Say("error", msg), Return("setupDrupalSettings", FALSE)>>)

SetupFails(evs, msg) ==
    Abort(evs \o <<Say("error", msg), Return("setupDrupalSettings", FALSE)>>)

SetupDrupalSettings ==
    /\ pc = "setupDrupalSettings"
    /\ \E mkdirOk, writeOk, indicatorOk, settingsOk, truncated \in BOOLEAN :
        LET newContent == RewriteSettings(fs.settings)
            mkdir == FileOp("mkdir", ConfigSyncPath, mkdirOk, <<>>)
            read == FileOp("read", SettingsPath, fs.settingsExists,
                           IF fs.settingsExists THEN fs.settings ELSE <<>>)
            write == FileOp("write", SettingsPath, writeOk, newContent)
            indicator == FileOp("write", IndicatorPath, indicatorOk,
                                configIndicatorYML)
            settings == FileOp("write", SettingsConfigPath, settingsOk,
                               configSettingsYML)
        IN
        IF ~mkdirOk
        THEN /\ SetupFails(<<mkdir>>, "Failed to create config directory")
             /\ fs' = fs
        ELSE IF ~fs.settingsExists
        THEN /\ SetupFails(<<mkdir, read>>, "Failed to read settings.ddev.php")
             /\ fs' = [fs EXCEPT !.syncDir = TRUE]
        ELSE IF ~writeOk
        THEN /\ SetupFails(<<mkdir, read, write>>,
                           "Failed to write settings.ddev.php")
             \* a WriteFile that fails after opening leaves the file cut short
             /\ fs' = [fs EXCEPT !.syncDir = TRUE,
                                 !.settings = IF truncated THEN <<>> ELSE @]
        ELSE IF ~indicatorOk
        THEN /\ SetupFails(<<mkdir, read, write, indicator>>,
                           "Failed to write config files")
             /\ fs' = [fs EXCEPT !.syncDir = TRUE, !.settings = newContent]
        ELSE IF ~settingsOk
        THEN /\ SetupFails(<<mkdir, read, write, indicator, settings>>,
                           "Failed to write config files")
             /\ fs' = [fs EXCEPT !.syncDir = TRUE, !.settings = newContent,
                                 !.indicatorYml = TRUE]
        \* MkdirAll succeeded, so the closing os.Stat finds config/sync
        ELSE /\ Goto("installDrupalSite",
                     <<mkdir, read, write, indicator, settings,
                       Say("success", "Drupal settings setup completed"),
                       Return("setupDrupalSettings", TRUE)>>)
             /\ fs' = [fs EXCEPT !.syncDir = TRUE, !.settings = newContent,
                                 !.indicatorYml = TRUE, !.settingsYml = TRUE]
    /\ UNCHANGED <<dockerProvider, tools, stdinLeft, projectPath, siteURL>>

---------------------------------------------------------------------------
(* installDrupalSite, enableDrupalModules, importDrupalConfig *)

DrushSiteInstall ==
    <<"ddev", "drush", "site:install", "standard", "--yes",
      "--account-name=admin", "--account-pass=admin",
      "--site-name=Super Awesome Site">>

modules ==
    <<"admin_toolbar", "config_split", "devel", "environment_indicator",
      "environment_indicator_ui", "environment_indicator_toolbar",
      "token", "pathauto", "config_ignore", "better_exposed_filters",
      "key", "webprofiler", "diff", "ultimate_cron", "devel_generate">>

DrushEnable == <<"ddev", "drush", "en", "-y">> \o modules

DrushConfigImport == <<"ddev", "drush", "config:import", "--partial", "--yes">>

\* the step with main going on whatever the step returned
CommandStep_Unchecked(fn, cmd, next, okMsg, errMsg) ==
    \E ok \in BOOLEAN :
        Goto(next, <<Exec(cmd, projectPath, ok),
                     Say(IF ok THEN "success" ELSE "error",
                         IF ok THEN okMsg ELSE errMsg),
                     Return(fn, ok)>>)

\* the step trying its command a second time when the first try failed
CommandStep_Retry(fn, cmd, next, okMsg, errMsg) ==
    \E ok, again \in BOOLEAN :
        IF ok
        THEN Goto(next, <<Exec(cmd, projectPath, TRUE), Say("success", okMsg),
                          Return(fn, TRUE)>>)
        ELSE IF again
        THEN Goto(next, <<Exec(cmd, projectPath, FALSE),
                          Exec(cmd, projectPath, TRUE), Say("success", okMsg),
                          Return(fn, TRUE)>>)
        ELSE Abort(<<Exec(cmd, projectPath, FALSE),
                     Exec(cmd, projectPath, FALSE), Say("error", errMsg),
                     Return(fn, FALSE)>>)

\* a step that is one command in the project directory and fatal on failure
CommandStep(fn, cmd, next, okMsg, errMsg) ==
    \E ok \in BOOLEAN :
        IF ok
        THEN Goto(next, <<Exec(cmd, projectPath, TRUE), Say("success", okMsg),
                          Return(fn, TRUE)>>)
        ELSE Abort(<<Exec(cmd, projectPath, FALSE), Say("error", errMsg),
                     Return(fn, FALSE)>>)

\* main going from the site install straight on to the config import
InstallDrupalSite_SkipModules ==
    /\ pc = "installDrupalSite"
    /\ CommandStep("installDrupalSite", DrushSiteInstall, "importDrupalConfig",
                   "Drupal site installed", "Failed to install Drupal site")
    /\ UNCHANGED <<dockerProvider, tools, stdinLeft, projectPath, fs, siteURL>>

InstallDrupalSite ==
    /\ pc = "installDrupalSite"
    /\ CommandStep("installDrupalSite", DrushSiteInstall, "enableDrupalModules",
                   "Drupal site installed", "Failed to install Drupal site")
    /\ UNCHANGED <<dockerProvider, tools, stdinLeft, projectPath, fs, siteURL>>

EnableDrupalModules ==
    /\ pc = "enableDrupalModules"
    /\ CommandStep("enableDrupalModules", DrushEnable, "importDrupalConfig",
                   "Drupal modules enabled", "Failed to enable modules")
    /\ UNCHANGED <<dockerProvider, tools, stdinLeft, projectPath, fs, siteURL>>

ImportDrupalConfig ==
    /\ pc = "importDrupalConfig"
    /\ IF ~fs.syncDir
       THEN Goto("generateDrupalContent",
                 <<Say("warning", "Config directory not found"),
                   Return("importDrupalConfig", TRUE)>>)
       ELSE CommandStep("importDrupalConfig", DrushConfigImport,
                        "generateDrupalContent",
                        "Drupal config imported", "Failed to import config")
    /\ UNCHANGED <<dockerProvider, tools, stdinLeft, projectPath, fs, siteURL>>

---------------------------------------------------------------------------
(* generateDrupalContent *)

ContentResponses ==
    { <<>>, <<"y">>, <<"Y">>, <<"n">>, <<"y", "e", "s">>, <<" ", "y", "\t">> }

\* the response generateDrupalContent compares with "y"
ResponseOf(text) == TrimSpace(ToLower(text))

\* the test with strings.HasPrefix in place of the comparison
Affirmative_Prefix(text) == HasPrefix(ResponseOf(text), <<"y">>)

Affirmative(text) == ResponseOf(text) = <<"y">>

DrushGenu ==
    <<"ddev", "drush", "genu", "10", "--kill", "--roles=content_editor">>
DrushGenc ==
    <<"ddev", "drush", "genc", "25", "-y", "--kill",
      "--roles=content_editor", "--skip-fields=field_tags">>

\* generateDrupalContent with main exiting on its error as on the others
GenerateDrupalContent_Fatal ==
    /\ pc = "generateDrupalContent"
    /\ \E text \in Returned(ContentResponses), took \in 0..MaxStdinLines :
        /\ Reads(ContentResponses, text, took)
        /\ stdinLeft' = stdinLeft - took
        /\ IF ~Affirmative(text)
           THEN Goto("getSiteURL",
                     <<PromptEvent("content", text, took),
                       Say("success", "Drupal content generation skipped"),
                       Return("generateDrupalContent", TRUE)>>)
           ELSE \E usersOk \in BOOLEAN :
                IF ~usersOk
                THEN Abort(<<PromptEvent("content", text, took),
                             Exec(DrushGenu, projectPath, FALSE),
                             Say("error", "Failed to generate users"),
                             Return("generateDrupalContent", FALSE)>>)
                ELSE Goto("getSiteURL",
                          <<PromptEvent("content", text, took),
                            Exec(DrushGenu, projectPath, TRUE),
                            Exec(DrushGenc, projectPath, TRUE),
                            Say("success", "Drupal content generated"),
                            Return("generateDrupalContent", TRUE)>>)
    /\ UNCHANGED <<dockerProvider, tools, projectPath, fs, siteURL>>

GenerateDrupalContent ==
    /\ pc = "generateDrupalContent"
    /\ \E text \in Returned(ContentResponses), took \in 0..MaxStdinLines :
        /\ Reads(ContentResponses, text, took)
        /\ stdinLeft' = stdinLeft - took
        /\ IF ~Affirmative(text)
           THEN Goto("getSiteURL",
                     <<PromptEvent("content", text, took),
                       Say("success", "Drupal content generation skipped"),
                       Return("generateDrupalContent", TRUE)>>)
           ELSE \E usersOk, contentOk \in BOOLEAN :
                IF ~usersOk
                THEN Goto("getSiteURL",
                          <<PromptEvent("content", text, took),
                            Exec(DrushGenu, projectPath, FALSE),
                            Say("error", "Failed to generate users"),
                            Return("generateDrupalContent", FALSE),
                            Say("warning", "Content generation failed, but continuing...")>>)
                ELSE IF ~contentOk
                THEN Goto("getSiteURL",
                          <<PromptEvent("content", text, took),
                            Exec(DrushGenu, projectPath, TRUE),
                            Exec(DrushGenc, projectPath, FALSE),
                            Say("error", "Failed to generate content"),
                            Return("generateDrupalContent", FALSE),
                            Say("warning", "Content generation failed, but continuing...")>>)
                ELSE Goto("getSiteURL",
                          <<PromptEvent("content", text, took),
                            Exec(DrushGenu, projectPath, TRUE),
                            Exec(DrushGenc, projectPath, TRUE),
                            Say("success", "Drupal content generated"),
                            Return("generateDrupalContent", TRUE)>>)
    /\ UNCHANGED <<dockerProvider, tools, projectPath, fs, siteURL>>

---------------------------------------------------------------------------
(* Decoding the output of `ddev describe` *)

\* json.Unmarshal(output, &result) with result a map[string]interface{}:
\* only an object or null decodes without an error
UnmarshalFails(doc) == doc.t \notin {"object", "null"}

\* result after a successful Unmarshal: null leaves the map nil
UnmarshalMap(doc) == IF doc.t = "object" THEN doc.kids ELSE <<>>

\* m[key] on a decoded map: the last member of that name wins, a missing
\* key and a JSON null are both the nil interface
MapGet(m, key) ==
    LET at == {i \in 1..Len(m) : m[i].k = key} IN
    IF at = {} THEN JNull
    ELSE m[CHOOSE i \in at : \A j \in at : j <= i].v

\* v.([]interface{}), v.(map[string]interface{}), v.(string): the ok flag
IsArray(v) == v.t = "array"
IsMap(v) == v.t = "object"
IsString(v) == v.t = "string"

\* a[i] on a slice (i counted from 0): Go panics when i is out of range
ElemAt(a, i) ==
    IF i + 1 \in 1..Len(a)
    THEN [panic |-> FALSE, v |-> a[i + 1].v]
    ELSE [panic |-> TRUE, v |-> JNull]

Found(url) == [panic |-> FALSE, found |-> TRUE, url |-> url]
NotFound == [panic |-> FALSE, found |-> FALSE, url |-> ""]
Panicked == [panic |-> TRUE, found |-> FALSE, url |-> ""]

\* the extraction without the len(raw) > 0 test of line 466
ExtractURL_NoLenCheck(result) ==
    LET raw == MapGet(result, "raw") IN
    IF IsArray(raw)
    THEN LET first == ElemAt(raw.kids, 0) IN
         IF first.panic THEN Panicked
         ELSE IF IsMap(first.v)
              THEN LET httpsURL == MapGet(first.v.kids, "https_url") IN
                   IF IsString(httpsURL) THEN Found(httpsURL.s) ELSE NotFound
              ELSE NotFound
    ELSE NotFound

\* the extraction reading the last element of raw in place of raw[0]
ExtractURL_LastElement(result) ==
    LET raw == MapGet(result, "raw") IN
    IF IsArray(raw) /\ Len(raw.kids) > 0
    THEN LET first == ElemAt(raw.kids, Len(raw.kids) - 1) IN
         IF first.panic THEN Panicked
         ELSE IF IsMap(first.v)
              THEN LET httpsURL == MapGet(first.v.kids, "https_url") IN
                   IF IsString(httpsURL) THEN Found(httpsURL.s) ELSE NotFound
              ELSE NotFound
    ELSE NotFound

\* lines 466-473 of getSiteURL on the decoded map
ExtractURL(result) ==
    LET raw == MapGet(result, "raw") IN
    IF IsArray(raw) /\ Len(raw.kids) > 0
    THEN LET first == ElemAt(raw.kids, 0) IN
         IF first.panic THEN Panicked
         ELSE IF IsMap(first.v)
              THEN LET httpsURL == MapGet(first.v.kids, "https_url") IN
                   IF IsString(httpsURL) THEN Found(httpsURL.s) ELSE NotFound
              ELSE NotFound
    ELSE NotFound

\* getSiteURL from the outcome of the command on
SiteURLOf(outcome) ==
    IF outcome.err THEN NotFound
    ELSE IF UnmarshalFails(outcome.out) THEN NotFound
    ELSE ExtractURL(UnmarshalMap(outcome.out))

ExampleURL == "https://example.ddev.site"
OtherURL == "https://other.ddev.site"

Project(url) == JObj(<<Member("https_url", url)>>)
Described(raw) == JObj(<<Member("raw", raw)>>)

\* the outcomes of the status query in a whole run
RunOutcomes ==
    { Outcome(TRUE, Malformed),
      Outcome(FALSE, JObj(<<>>)),
      Outcome(FALSE, Described(JArr(<<Project(JStr(ExampleURL))>>))) }

DdevDescribe == <<"ddev", "describe", "--json-output">>

GetSiteURL(outcomes) ==
    /\ pc = "getSiteURL"
    /\ \E outcome \in outcomes :
        LET r == SiteURLOf(outcome)
            ran == ExecOutput(DdevDescribe, projectPath, outcome)
        IN
        IF r.panic
        THEN \* an unrecovered panic ends the process with exit code 2
             /\ pc' = "exited"
             /\ exitCode' = 2
             /\ log' = log \o <<ran, Say("panic", "runtime error"), Exit(2)>>
             /\ siteURL' = siteURL
        ELSE /\ Goto("displayFinalInstructions",
                     <<ran,
                       IF outcome.err
                       THEN Say("warning", "Could not determine site URL")
                       ELSE IF UnmarshalFails(outcome.out)
                       THEN Say("warning", "Could not parse site URL")
                       ELSE IF r.found
                       THEN Say("success", "Site URL: " \o r.url)
                       ELSE Say("warning", "Could not determine site URL"),
                       Return("getSiteURL", TRUE)>>)
             /\ siteURL' = r.url
    /\ UNCHANGED <<dockerProvider, tools, stdinLeft, projectPath, fs>>

---------------------------------------------------------------------------
(* displayFinalInstructions, and main returning *)

\* the instructions without the test of line 486
DisplayFinalInstructions_AlwaysVisit ==
    /\ pc = "displayFinalInstructions"
    /\ pc' = "exited"
    /\ exitCode' = 0
    /\ log' = log \o
              <<Say("success", "Drupal 11 installation completed!"),
                Say("info", "1. Visit your site: " \o siteURL),
                Exit(0)>>
    /\ UNCHANGED <<dockerProvider, tools, stdinLeft, projectPath, fs, siteURL>>

DisplayFinalInstructions ==
    /\ pc = "displayFinalInstructions"
    /\ pc' = "exited"
    /\ exitCode' = 0
    /\ log' = log \o
              <<Say("success", "Drupal 11 installation completed!"),
                IF siteURL # ""
                THEN Say("info", "1. Visit your site: " \o siteURL)
                ELSE Say("info", "1. Run 'ddev describe' to get your site URL"),
                Exit(0)>>
    /\ UNCHANGED <<dockerProvider, tools, stdinLeft, projectPath, fs, siteURL>>

---------------------------------------------------------------------------
(* A whole run of the installer *)

Machines ==
    { t \in [brew : BOOLEAN, dockerPkg : BOOLEAN, dockerUp : BOOLEAN,
             colima : BOOLEAN, colimaUp : BOOLEAN, ddev : BOOLEAN] :
        t.colimaUp => t.colima }

EmptyTree ==
    [projectDir |-> FALSE, ddevDir |-> FALSE, syncDir |-> FALSE,
     settingsExists |-> FALSE, settings |-> <<>>,
     indicatorYml |-> FALSE, settingsYml |-> FALSE]

Init ==
    /\ pc = "selectDockerProvider"
    /\ exitCode = NoExit
    /\ dockerProvider = ""
    /\ tools \in Machines
    /\ stdinLeft \in 0..MaxStdinLines
    /\ projectPath = <<>>
    /\ fs = EmptyTree
    /\ siteURL = ""
    /\ log = <<>>

Next ==
    \/ SelectDockerProvider(RunProviders)
    \/ CheckPrerequisites
    \/ CheckHomebrew
    \/ InstallDocker
    \/ CheckDockerRunning
    \/ InstallColima
    \/ CheckColimaRunning
    \/ ColimaComesUp
    \/ StartColima
    \/ RecheckColima
    \/ InstallDDEV
    \/ CheckDDEVVersion
    \/ InitDrupalProject(RunNames)
    \/ InitDDEVProject
    \/ StartDDEV(RunContents)
    \/ InstallDrupalDependencies
    \/ SetupDrupalSettings
    \/ InstallDrupalSite
    \/ EnableDrupalModules
    \/ ImportDrupalConfig
    \/ GenerateDrupalContent
    \/ GetSiteURL(RunOutcomes)
    \/ DisplayFinalInstructions

Spec == Init /\ [][Next]_vars

---------------------------------------------------------------------------
(* Single steps on wider inputs.  Each of the specifications below starts  *)
(* where main calls the step, on a machine that has every tool and runs    *)
(* Docker Desktop, and log holds the events from that call on.             *)

\* every text of at most n characters of alphabet
Texts(alphabet, n) == UNION {[1..k -> alphabet] : k \in 0..n}

RECURSIVE Flatten(_)
Flatten(pieces) ==
    IF pieces = <<>> THEN <<>> ELSE pieces[1] \o Flatten(Tail(pieces))

Installed ==
    [brew |-> TRUE, dockerPkg |-> TRUE, dockerUp |-> TRUE,
     colima |-> FALSE, colimaUp |-> FALSE, ddev |-> TRUE]

MySitePath == JoinText(Cwd, ProjectNameOf(MySite \o <<"\n">>))

\* the project tree once `ddev start` has run
StartedTree(exists, content) ==
    [EmptyTree EXCEPT !.projectDir = TRUE, !.ddevDir = TRUE,
                      !.settingsExists = exists, !.settings = content]

\* the project tree once setupDrupalSettings has run
ConfiguredTree ==
    [StartedTree(TRUE, RewriteSettings(Filler \o OldFragment \o <<"'">>))
        EXCEPT !.syncDir = TRUE, !.indicatorYml = TRUE, !.settingsYml = TRUE]

InitAt(step, path, trees) ==
    /\ pc = step
    /\ exitCode = NoExit
    /\ dockerProvider = "docker"
    /\ tools = Installed
    /\ stdinLeft \in 0..MaxStdinLines
    /\ projectPath = path
    /\ fs \in trees
    /\ siteURL = ""
    /\ log = <<>>

\* initDrupalProject on every short name
NameAlphabet == {"a", "M", " ", "\t", "/", "."}
AllNames == Texts(NameAlphabet, MaxNameLen) \cup {MySite}

InitName == InitAt("initDrupalProject", <<>>, {EmptyTree})
SpecName == InitName /\ [][InitDrupalProject(AllNames)]_vars

\* setupDrupalSettings on every settings file made of a few pieces
Pieces ==
    { <<"x">>, <<"\n">>, OldFragment, NewFragment, SubSeq(OldFragment, 1, 20) }
AllContents == {Flatten(ps) : ps \in Texts(Pieces, MaxPieces)}

InitSettings ==
    InitAt("setupDrupalSettings", MySitePath,
           {StartedTree(TRUE, c) : c \in AllContents}
           \cup {StartedTree(FALSE, <<>>)})
SpecSettings == InitSettings /\ [][SetupDrupalSettings]_vars

\* getSiteURL, and the instructions after it, on every small status document
Urls == {JNull, JNum, JStr(""), JStr(ExampleURL), JArr(<<>>)}
Projects ==
    Urls \cup {JObj(<<>>)}
    \cup {JObj(<<Member(k, v)>>) : k \in {"https_url", "name"}, v \in Urls}
    \cup {JObj(<<Member("https_url", JNum), Member("https_url", JStr(OtherURL))>>),
          JObj(<<Member("https_url", JStr(OtherURL)), Member("https_url", JNum)>>)}
Rests == {JNum, Project(JStr(OtherURL))}
Raws ==
    Urls \cup {JObj(<<>>), Project(JStr(ExampleURL))}
    \cup {JArr(<<p>> \o rest) : p \in Projects, rest \in Texts(Rests, MaxRawLen - 1)}
Docs ==
    {Malformed} \cup Urls \cup {JObj(<<>>)}
    \cup {Described(r) : r \in Raws}
    \cup {JObj(<<Member("name", JStr("x")), Member("raw", r)>>) : r \in Raws}
    \cup {JObj(<<Member("raw", r), Member("raw", JNum)>>) : r \in Raws}
AllOutcomes == {Outcome(err, doc) : err \in BOOLEAN, doc \in Docs}

InitSiteURL == InitAt("getSiteURL", MySitePath, {ConfiguredTree})
NextSiteURL ==
    \/ GetSiteURL(AllOutcomes)
    \/ DisplayFinalInstructions
SpecSiteURL == InitSiteURL /\ [][NextSiteURL]_vars

\* selectDockerProvider on every short response
ChoiceAlphabet == {"1", "2", "0", " ", "\t"}
Colima == <<"c", "o", "l", "i", "m", "a">>
AllChoices == Texts(ChoiceAlphabet, MaxChoiceLen) \cup {Colima}

InitProvider ==
    /\ pc = "selectDockerProvider"
    /\ exitCode = NoExit
    /\ dockerProvider = ""
    /\ tools = Installed
    /\ stdinLeft \in 0..MaxStdinLines
    /\ projectPath = <<>>
    /\ fs = EmptyTree
    /\ siteURL = ""
    /\ log = <<>>
SpecProvider == InitProvider /\ [][SelectDockerProvider(AllChoices)]_vars

\* setupDrupalSettings on settings files made of the fragments and of parts
\* of them, so that a replacement can sit next to the head or the tail of
\* the old fragment
FragmentPieces ==
    Pieces \cup { SubSeq(OldFragment, 21, 24), SubSeq(OldFragment, 2, 24),
                  SubSeq(NewFragment, 1, 3) }
FragmentContents == {Flatten(ps) : ps \in Texts(FragmentPieces, MaxPieces)}

InitRewrite ==
    /\ pc = "setupDrupalSettings"
    /\ exitCode = NoExit
    /\ dockerProvider = "docker"
    /\ tools = Installed
    /\ stdinLeft = 0
    /\ projectPath = MySitePath
    /\ fs \in {StartedTree(TRUE, c) : c \in FragmentContents}
    /\ siteURL = ""
    /\ log = <<>>
SpecRewrite == InitRewrite /\ [][SetupDrupalSettings]_vars

---------------------------------------------------------------------------
(* Reading the history *)

\* the events an action appends
Added == SubSeq(log', Len(log) + 1, Len(log'))

\* how often the command cmd was invoked in the events evs
CountIn(evs, cmd) ==
    Cardinality({i \in DOMAIN evs : IsExec(evs[i]) /\ evs[i].cmd = cmd})

Has(evs, e) == \E i \in DOMAIN evs : evs[i] = e

IsBrewInstall(e) == IsExec(e) /\ e.cmd[1] = "brew" /\ e.cmd[2] = "install"

BrewInstallDocker == <<"brew", "install", "docker">>
BrewInstallColima == <<"brew", "install", "colima">>
BrewInstallDDEV == <<"brew", "install", "ddev/ddev/ddev">>
ColimaStart == <<"colima", "start">>

\* the steps whose failure main answers with os.Exit(1)
FatalSteps ==
    { "checkHomebrew", "checkDockerRunning", "installDDEV",
      "initDrupalProject", "initDDEVProject", "startDDEV",
      "installDrupalDependencies", "setupDrupalSettings",
      "installDrupalSite", "enableDrupalModules", "importDrupalConfig" }

\* event i of h is a fatal step reporting failure.  For Colima the running
\* check that decides is the one main makes after startColima.
FatalFailureAt(h, i) ==
    /\ h[i].kind = "return"
    /\ ~h[i].ok
    /\ \/ h[i].cmd[1] \in FatalSteps
       \/ /\ h[i].cmd[1] = "checkColimaRunning"
          /\ \E j \in 1..(i - 1) :
                h[j].kind = "return" /\ h[j].cmd[1] = "startColima"

---------------------------------------------------------------------------
(* C1: when a fatal step (Homebrew check, backend-running check, DDEV      *)
(* install, scaffold, DDEV init, DDEV start, dependency install, settings  *)
(* setup, site install, module enable, config import) reports failure, the *)
(* process has exit code 1, the exit is the last event of the run, and     *)
(* after the report no command, prompt, file operation or further step     *)
(* occurs: only messages and the exit follow.                              *)
C1_FatalFailureStops ==
    \A i \in DOMAIN log :
        FatalFailureAt(log, i) =>
            /\ pc = "exited"
            /\ exitCode = 1
            /\ log[Len(log)] = Exit(1)
            /\ \A j \in (i + 1)..Len(log) : log[j].kind \in {"print", "exit"}

\* the site install failed, after eleven steps that went well
C1_Witness ==
    \E i \in DOMAIN log :
        /\ FatalFailureAt(log, i)
        /\ log[i].cmd[1] = "installDrupalSite"
        /\ exitCode = 1

---------------------------------------------------------------------------
(* C2: the process exits 1 only when a fatal step failed, and exits 0 when *)
(* Homebrew is present, the backend is running when checked, the project   *)
(* name is accepted, no file operation fails and every install, scaffold   *)
(* and configuration command that was invoked exited zero, also when DDEV  *)
(* was absent and its install exited zero.                                 *)
WentWell ==
    /\ Has(log, Return("checkHomebrew", TRUE))
    /\ \/ Has(log, Return("checkDockerRunning", TRUE))
       \/ Has(log, Return("checkColimaRunning", TRUE))
    /\ \A i \in DOMAIN log :
        /\ StateChanging(log[i]) => log[i].ok
        /\ log[i].kind \in {"mkdir", "read", "write"} => log[i].ok
        /\ log[i] # Say("error", "Project name cannot be empty")
        /\ log[i] # Say("error", "Failed to get current directory")

C2_ExitZeroOnSuccess ==
    /\ exitCode = 1 => \E i \in DOMAIN log : FatalFailureAt(log, i)
    /\ (pc = "exited" /\ WentWell) => exitCode = 0

---------------------------------------------------------------------------
(* C3: installDocker, installColima and installDDEV invoke their install   *)
(* command zero times and return true when the tool is present, and once   *)
(* when it is absent; startColima invokes `colima start` zero times when   *)
(* Colima is running and once otherwise; no install or start command is    *)
(* invoked twice in a run.                                                  *)
EnsuresOnce(present, install, fn) ==
    IF present
    THEN CountIn(Added, install) = 0 /\ Has(Added, Return(fn, TRUE))
    ELSE CountIn(Added, install) = 1

C3_Step ==
    /\ (pc = "installBackend" /\ dockerProvider = "docker" /\ pc' # pc) =>
            EnsuresOnce(tools.brew /\ tools.dockerPkg, BrewInstallDocker,
                        "installDocker")
    /\ (pc = "installBackend" /\ dockerProvider = "colima" /\ pc' # pc) =>
            EnsuresOnce(tools.colima, BrewInstallColima, "installColima")
    /\ (pc = "installDDEV" /\ pc' # pc) =>
            EnsuresOnce(tools.ddev, BrewInstallDDEV, "installDDEV")
    /\ (pc = "startColima" /\ pc' # pc) =>
            CountIn(Added, ColimaStart) = (IF tools.colimaUp THEN 0 ELSE 1)
    /\ \A cmd \in {BrewInstallDocker, BrewInstallColima, BrewInstallDDEV,
                   ColimaStart} : CountIn(log', cmd) <= 1

C3_EnsureStepsActOnce == [][C3_Step]_vars

\* Colima was installed and came up by itself: no install, no start
C3_Witness ==
    /\ Has(log, Return("installColima", TRUE))
    /\ Has(log, Return("startColima", TRUE))
    /\ CountIn(log, BrewInstallColima) = 0
    /\ CountIn(log, ColimaStart) = 0

---------------------------------------------------------------------------
(* C4: on a machine with Homebrew, Docker and DDEV present and Docker      *)
(* running, a run in which Docker Desktop is selected invokes no `brew     *)
(* install` and no `colima start`, and the first state-changing command it *)
(* invokes is `composer create-project`, right after the project-name      *)
(* prompt.                                                                 *)
AllPresent ==
    tools.brew /\ tools.dockerPkg /\ tools.dockerUp /\ tools.ddev

C4_NoInstallThenScaffold ==
    /\ \A i \in DOMAIN log :
        ~IsBrewInstall(log[i]) /\ ~(IsExec(log[i]) /\ log[i].cmd = ColimaStart)
    /\ \A i \in DOMAIN log :
        (StateChanging(log[i]) /\ \A j \in 1..(i - 1) : ~StateChanging(log[j]))
        => /\ log[i].cmd = ComposerCreateProject
           /\ \E j \in 1..(i - 1) :
                /\ log[j].kind = "prompt" /\ log[j].cmd = <<"name">>
                /\ \A k \in (j + 1)..(i - 1) : log[k].kind = "print"

C4_PrimaryBackendAllPresent ==
    AllPresent => [](dockerProvider = "docker" => C4_NoInstallThenScaffold)

\* such a run has invoked the scaffold
C4_Witness ==
    /\ dockerProvider = "docker"
    /\ AllPresent
    /\ \A i \in DOMAIN log : ~IsBrewInstall(log[i])
    /\ \E i \in DOMAIN log :
        IsExec(log[i]) /\ log[i].cmd = ComposerCreateProject

---------------------------------------------------------------------------
(* C5: for every project-name input that is accepted, the derived name has *)
(* no upper-case letter and no space character, and it is the input with   *)
(* the surrounding whitespace removed, every letter lower-cased and every  *)
(* remaining space replaced by "-"; "  My Site  " yields "my-site".        *)

IsNamePrompt(e) == e.kind = "prompt" /\ e.cmd = <<"name">>
IsCreating(e) ==
    e.kind = "print" /\ e.cmd = <<"info", "Creating Drupal project">>

Blank(t) == \A k \in DOMAIN t : IsSpace(t[k])

\* n is what is left of t between lead and Len(t) - trail, lower-cased and
\* with "-" for " "
DerivedFrom(n, t, lead, trail) ==
    /\ \A k \in 1..lead : IsSpace(t[k])
    /\ \A k \in (Len(t) - trail + 1)..Len(t) : IsSpace(t[k])
    /\ ~IsSpace(t[lead + 1])
    /\ ~IsSpace(t[Len(t) - trail])
    /\ Len(n) = Len(t) - lead - trail
    /\ \A k \in 1..Len(n) :
        n[k] = (IF t[lead + k] = " " THEN "-" ELSE ToLowerChar(t[lead + k]))

MySiteName == <<"m", "y", "-", "s", "i", "t", "e">>

C5_NameNormalized ==
    \A i \in DOMAIN log : \A j \in DOMAIN log :
        (IsNamePrompt(log[i]) /\ IsCreating(log[j])) =>
            LET t == log[i].text
                n == log[j].text
            IN
            /\ \A k \in DOMAIN n :
                n[k] # " " /\ ~(\E u \in DOMAIN UpperLetters : UpperLetters[u] = n[k])
            /\ \E lead \in 0..Len(t) : \E trail \in 0..(Len(t) - lead - 1) :
                DerivedFrom(n, t, lead, trail)
            /\ t = MySite \o <<"\n">> => n = MySiteName

\* "  My Site  " was typed and the scaffold was run for "my-site"
C5_Witness ==
    /\ \E i \in DOMAIN log : IsNamePrompt(log[i]) /\ log[i].text = MySite \o <<"\n">>
    /\ \E j \in DOMAIN log : IsCreating(log[j]) /\ log[j].text = MySiteName
    /\ Has(log, ExecOn(ComposerCreateProject, Cwd \o <<MySiteName>>, Cwd, TRUE))

---------------------------------------------------------------------------
(* C6: an empty or whitespace-only project name is rejected and the run    *)
(* aborts with exit code 1.                                                *)

IsFileOp(e) == e.kind \in {"mkdir", "read", "write"}

---------------------------------------------------------------------------
(* C7: the settings rewrite is a pure substring replacement.               *)

IsSettingsRead(e) == e.kind = "read" /\ e.ok
IsSettingsWrite(e) == e.kind = "write" /\ e.arg = SettingsPath

\* where the fragment occurs in r
Occurrences(r) ==
    {q \in 1..(Len(r) - Len(OldFragment) + 1) :
        SubSeq(r, q, q + Len(OldFragment) - 1) = OldFragment}

\* C7 as stated: content holding the fragment is written back with exactly
\* one occurrence replaced and every other byte as it was
C7_ReplacedExactlyOnce ==
    \A i \in DOMAIN log : \A j \in DOMAIN log :
        (IsSettingsRead(log[i]) /\ IsSettingsWrite(log[j])
         /\ Occurrences(log[i].text) # {}) =>
            LET r == log[i].text
                w == log[j].text
            IN \E q \in Occurrences(r) :
                w = SubSeq(r, 1, q - 1) \o NewFragment
                    \o SubSeq(r, q + Len(OldFragment), Len(r))

\* C7 as amended: every occurrence of the fragment is replaced, each by
\* "../config/sync", and every byte outside the occurrences is kept, in
\* order; content holding the fragment once has that one occurrence
\* replaced
C7_EveryOccurrenceReplaced ==
    \A i \in DOMAIN log : \A j \in DOMAIN log :
        (IsSettingsRead(log[i]) /\ IsSettingsWrite(log[j])) =>
            LET r == log[i].text
                w == log[j].text
                occ == Occurrences(r)
                shrink == Len(OldFragment) - Len(NewFragment)
                \* where position p of r lands in w
                At(p) == p - shrink * Cardinality({q \in occ : q < p})
                Inside(p) == \E q \in occ : q <= p /\ p < q + Len(OldFragment)
            IN
            /\ Len(w) = Len(r) - shrink * Cardinality(occ)
            /\ \A p \in DOMAIN r : ~Inside(p) => w[At(p)] = r[p]
            /\ \A q \in occ :
                SubSeq(w, At(q), At(q) + Len(NewFragment) - 1) = NewFragment
            /\ log[j].ok => fs.settings = w

\* a file holding the fragment twice was rewritten
C7_Witness ==
    \E i \in DOMAIN log : \E j \in DOMAIN log :
        /\ IsSettingsRead(log[i])
        /\ IsSettingsWrite(log[j]) /\ log[j].ok
        /\ Cardinality(Occurrences(log[i].text)) = 2

---------------------------------------------------------------------------
(* C8: getSiteURL is total: whatever the status query did (it failed, its  *)
(* output is no JSON, is not an object, has no "raw", "raw" is no array or *)
(* is empty, its first element is no object, "https_url" is missing or no  *)
(* string), getSiteURL returns "" without a fault and the process goes on  *)
(* to the final instructions.                                              *)

IsDescribe(e) == IsExec(e) /\ e.cmd = DdevDescribe

\* doc is an object whose "raw" is a non-empty array whose first element is
\* an object with a string "https_url"
HasURL(doc) ==
    /\ doc.t = "object"
    /\ LET raw == MapGet(doc.kids, "raw") IN
        /\ raw.t = "array"
        /\ Len(raw.kids) >= 1
        /\ raw.kids[1].v.t = "object"
        /\ MapGet(raw.kids[1].v.kids, "https_url").t = "string"

\* that string
URLIn(doc) == MapGet(MapGet(doc.kids, "raw").kids[1].v.kids, "https_url").s

C8_GetSiteURLTotal ==
    /\ exitCode # 2
    /\ \A i \in DOMAIN log :
        /\ log[i].kind = "print" => log[i].cmd[1] # "panic"
        /\ IsDescribe(log[i]) =>
            /\ pc \in {"displayFinalInstructions", "exited"}
            /\ pc = "exited" => exitCode = 0
            /\ Has(log, Return("getSiteURL", TRUE))
            /\ (~log[i].ok \/ ~HasURL(log[i].out)) => siteURL = ""

\* the query answered {"raw": []} and getSiteURL returned ""
C8_Witness ==
    /\ Has(log, ExecOutput(DdevDescribe, projectPath,
                           Outcome(FALSE, Described(JArr(<<>>)))))
    /\ Has(log, Return("getSiteURL", TRUE))
    /\ siteURL = ""
    /\ pc = "displayFinalInstructions"

---------------------------------------------------------------------------
(* C9: which URL getSiteURL returns.                                       *)

\* C9 as stated: after a status query that exited zero the URL is non-empty
\* exactly when the document has a string "https_url" in the first element
\* of "raw", and it is that string
C9_URLExactlyWhenString ==
    \A i \in DOMAIN log :
        (IsDescribe(log[i]) /\ log[i].ok) =>
            /\ siteURL # "" <=> HasURL(log[i].out)
            /\ HasURL(log[i].out) => siteURL = URLIn(log[i].out)

\* C9 as amended: the URL is non-empty exactly when the status query exited
\* zero and the document has a non-empty string "https_url" in the first
\* element of "raw"; whenever the query exited zero and that string is
\* there, it is what getSiteURL returns; no other element of "raw" counts
C9_URLExactlyWhenNonEmptyString ==
    \A i \in DOMAIN log :
        IsDescribe(log[i]) =>
            /\ siteURL # "" <=>
                (log[i].ok /\ HasURL(log[i].out) /\ URLIn(log[i].out) # "")
            /\ (log[i].ok /\ HasURL(log[i].out)) => siteURL = URLIn(log[i].out)
            /\ (log[i].ok /\ log[i].out = Described(JArr(<<Project(JStr(ExampleURL))>>)))
                => siteURL = ExampleURL
            /\ log[i].out = JObj(<<>>) => siteURL = ""

\* {"raw":[{"https_url":"https://example.ddev.site"}]} gave that URL
C9_Witness ==
    /\ Has(log, ExecOutput(DdevDescribe, projectPath,
            Outcome(FALSE, Described(JArr(<<Project(JStr(ExampleURL))>>)))))
    /\ siteURL = ExampleURL

---------------------------------------------------------------------------
(* C10: content generation is gated by the yes/no prompt.                  *)

IsContentPrompt(e) == e.kind = "prompt" /\ e.cmd = <<"content">>

Skipped == Say("success", "Drupal content generation skipped")

\* no generation command, the step reported as skipped, and exit code 0
SkippedAt(i) ==
    /\ CountIn(log, DrushGenu) = 0
    /\ CountIn(log, DrushGenc) = 0
    /\ log[i + 1] = Skipped
    /\ pc = "exited" => exitCode = 0

\* C10 as stated: every response but the line "y" skips the generation
C10_OnlyExactY ==
    \A i \in DOMAIN log :
        (IsContentPrompt(log[i]) /\ log[i].text # <<"y", "\n">>) => SkippedAt(i)

\* the response is "y" or "Y" with whitespace around it at most
YesToken(t) ==
    \E k \in DOMAIN t :
        /\ t[k] \in {"y", "Y"}
        /\ \A j \in DOMAIN t \ {k} : IsSpace(t[j])

\* C10 as amended: every response that is not "y" once it is trimmed and
\* lower-cased skips the generation ("Y" and " y " do generate)
C10_OnlyYesToken ==
    \A i \in DOMAIN log :
        (IsContentPrompt(log[i]) /\ ~YesToken(log[i].text)) => SkippedAt(i)

\* "yes" was answered, the step was skipped and the run exited 0
C10_Witness ==
    /\ \E i \in DOMAIN log :
        /\ IsContentPrompt(log[i])
        /\ log[i].text = <<"y", "e", "s", "\n">>
        /\ log[i + 1] = Skipped
    /\ pc = "exited"
    /\ exitCode = 0

---------------------------------------------------------------------------
(* C11: a failure of content generation (`drush genu` or `drush genc`      *)
(* exiting non-zero) only produces a warning: main prints it right after   *)
(* the step returned its error and goes on to the URL discovery; a run     *)
(* that has ended then has queried the URL, printed the final instructions *)
(* and exited 0.  When `drush genu` fails `drush genc` is not invoked.     *)

IsGeneration(e) == IsExec(e) /\ e.cmd \in {DrushGenu, DrushGenc}

ContinuingWarning == Say("warning", "Content generation failed, but continuing...")

Completed == Say("success", "Drupal 11 installation completed!")

C11_GenerationFailureIsWarning ==
    \A i \in DOMAIN log :
        (IsGeneration(log[i]) /\ ~log[i].ok) =>
            /\ log[i + 2] = Return("generateDrupalContent", FALSE)
            /\ log[i + 3] = ContinuingWarning
            /\ pc \in {"getSiteURL", "displayFinalInstructions", "exited"}
            /\ exitCode \in {NoExit, 0}
            /\ pc = "exited" =>
                /\ exitCode = 0
                /\ \E j \in (i + 4)..Len(log) : IsDescribe(log[j])
                /\ \E j \in (i + 4)..Len(log) : log[j] = Completed
            /\ log[i].cmd = DrushGenu => CountIn(log, DrushGenc) = 0
            /\ \A j \in DOMAIN log : IsGeneration(log[j]) => j <= i

\* `drush genu` failed and the run exited 0 after the final instructions
C11_Witness ==
    /\ Has(log, Exec(DrushGenu, projectPath, FALSE))
    /\ Has(log, ContinuingWarning)
    /\ Has(log, Completed)
    /\ pc = "exited"
    /\ exitCode = 0

---------------------------------------------------------------------------
(* C12: selectDockerProvider returns "colima" only when the response is    *)
(* "2" with nothing but whitespace around it; every other response (empty  *)
(* input, "1", "02", "colima", end of input) returns "docker", and the     *)
(* result is always one of the two.                                        *)

IsProviderPrompt(e) == e.kind = "prompt" /\ e.cmd = <<"provider">>

\* t is "2" with whitespace around it at most
TwoToken(t) ==
    \E k \in DOMAIN t :
        /\ t[k] = "2"
        /\ \A j \in DOMAIN t \ {k} : IsSpace(t[j])

C12_ColimaOnlyOnTwo ==
    \A i \in DOMAIN log :
        IsProviderPrompt(log[i]) =>
            /\ dockerProvider \in {"docker", "colima"}
            /\ dockerProvider = "colima" <=> TwoToken(log[i].text)
            /\ log[i].text \in {<<>>, <<"\n">>, <<"1", "\n">>, <<"0", "2", "\n">>,
                                 Colima \o <<"\n">>}
                => dockerProvider = "docker"
            /\ log[i + 1] = Return("selectDockerProvider", TRUE)

\* "02" was answered and Docker Desktop was chosen
C12_Witness ==
    /\ \E i \in DOMAIN log :
        IsProviderPrompt(log[i]) /\ log[i].text = <<"0", "2", "\n">>
    /\ dockerProvider = "docker"

---------------------------------------------------------------------------
(* C13: every external command invoked after the scaffold succeeded (ddev  *)
(* config, ddev start, the ddev composer commands, drush site:install,     *)
(* drush en, drush config:import, drush genu and genc, ddev describe) runs *)
(* with the path initDrupalProject returned as its working directory: the  *)
(* path the scaffold was handed, the same for all of them.                 *)

IsScaffold(e) == IsExec(e) /\ e.cmd = ComposerCreateProject

ProjectCommands ==
    { DdevConfig, <<"ddev", "start">>, DrushSiteInstall, DrushEnable,
      DrushConfigImport, DrushGenu, DrushGenc, DdevDescribe }
    \cup { <<"ddev">> \o packages[k] : k \in DOMAIN packages }

C13_CommandsRunInProject ==
    /\ \A i \in DOMAIN log :
        (IsScaffold(log[i]) /\ log[i].ok) =>
            /\ projectPath = log[i].arg
            /\ \A j \in (i + 1)..Len(log) :
                IsExec(log[j]) =>
                    log[j].cmd \in ProjectCommands /\ log[j].dir = log[i].arg
    /\ \A j \in DOMAIN log :
        (IsExec(log[j]) /\ log[j].cmd \in ProjectCommands) =>
            /\ log[j].dir = projectPath
            /\ \E i \in 1..(j - 1) : IsScaffold(log[i]) /\ log[i].ok

\* a whole run for "my-site": from ddev config to ddev describe in /h/w/my-site
C13_Witness ==
    /\ Has(log, ExecOn(ComposerCreateProject, Cwd \o <<MySiteName>>, Cwd, TRUE))
    /\ Has(log, Exec(DdevConfig, Cwd \o <<MySiteName>>, TRUE))
    /\ Has(log, Exec(DrushGenc, Cwd \o <<MySiteName>>, TRUE))
    /\ \E i \in DOMAIN log :
        IsDescribe(log[i]) /\ log[i].dir = Cwd \o <<MySiteName>>
    /\ pc = "exited"

---------------------------------------------------------------------------
(* C14: installDrupalDependencies runs its 15 composer commands in list    *)
(* order, each only after all the ones before it exited zero; on the first *)
(* non-zero exit it returns the error, none of the remaining commands is   *)
(* invoked and the run aborts with exit code 1.                            *)

IsComposer(e) ==
    IsExec(e) /\ Len(e.cmd) >= 2 /\ e.cmd[1] = "ddev" /\ e.cmd[2] = "composer"

C14_DependenciesInOrder ==
    /\ Len(packages) = 15
    /\ \A i \in DOMAIN log :
        IsComposer(log[i]) =>
            LET k == Cardinality({j \in 1..i : IsComposer(log[j])}) IN
            /\ k <= Len(packages)
            /\ log[i].cmd = <<"ddev">> \o packages[k]
            /\ \A j \in 1..(i - 1) : IsComposer(log[j]) => log[j].ok
            /\ ~log[i].ok =>
                /\ log[i + 2] = Return("installDrupalDependencies", FALSE)
                /\ \A j \in (i + 1)..Len(log) :
                    log[j].kind \in {"print", "return", "exit"}
                /\ pc = "exited"
                /\ exitCode = 1
    /\ Has(log, Return("installDrupalDependencies", TRUE)) =>
        Cardinality({j \in DOMAIN log : IsComposer(log[j])}) = Len(packages)

\* the third command failed after two that went well, and the run ended
C14_Witness ==
    /\ Has(log, Exec(<<"ddev">> \o packages[2], projectPath, TRUE))
    /\ Has(log, Exec(<<"ddev">> \o packages[3], projectPath, FALSE))
    /\ Cardinality({j \in DOMAIN log : IsComposer(log[j])}) = 3
    /\ exitCode = 1

---------------------------------------------------------------------------
(* C15: in every run that exits 0 the steps occur once each and in this    *)
(* order: provider prompt, prerequisite report, Homebrew check, backend    *)
(* install and running check, DDEV install, project creation, DDEV init,   *)
(* DDEV start, dependency installation, settings setup, site install,      *)
(* module enabling, config import, content-generation prompt, URL          *)
(* discovery, final instructions; the settings file is rewritten once,     *)
(* after `ddev start` and before `drush site:install`.                     *)

\* the step an event marks the completion of; "" for the other events.  The
\* backend is running once its running check has returned true: with Colima
\* that can be the check main repeats after startColima.
StepOf(e) ==
    IF e.kind = "prompt"
    THEN (IF e.cmd = <<"provider">> THEN "provider prompt"
          ELSE IF e.cmd = <<"content">> THEN "content prompt" ELSE "")
    ELSE IF e.kind = "print"
    THEN (IF e.cmd[2] = "prereq homebrew" THEN "prerequisite report"
          ELSE IF e = Completed THEN "final instructions" ELSE "")
    ELSE IF e.kind = "return"
    THEN (IF e.cmd[1] \in {"installDocker", "installColima"}
          THEN "backend install"
          ELSE IF e.cmd[1] \in {"checkDockerRunning", "checkColimaRunning"}
          THEN (IF e.ok THEN "backend running" ELSE "")
          ELSE IF e.cmd[1] \in {"selectDockerProvider", "startColima",
                                "generateDrupalContent"}
          THEN ""
          ELSE e.cmd[1])
    ELSE ""

StepOrder ==
    <<"provider prompt", "prerequisite report", "checkHomebrew",
      "backend install", "backend running", "installDDEV",
      "initDrupalProject", "initDDEVProject", "startDDEV",
      "installDrupalDependencies", "setupDrupalSettings", "installDrupalSite",
      "enableDrupalModules", "importDrupalConfig", "content prompt",
      "getSiteURL", "final instructions">>

StepsOf(h) ==
    LET marks == SelectSeq(h, LAMBDA e : StepOf(e) # "")
    IN [k \in 1..Len(marks) |-> StepOf(marks[k])]

C15_StepsInOrder ==
    exitCode = 0 =>
        /\ StepsOf(log) = StepOrder
        /\ \E b \in DOMAIN log :
            /\ IsSettingsWrite(log[b])
            /\ \A j \in DOMAIN log : IsSettingsWrite(log[j]) => j = b
            /\ \E a \in 1..(b - 1) :
                log[a] = Exec(<<"ddev", "start">>, projectPath, TRUE)
            /\ \E c \in (b + 1)..Len(log) :
                log[c] = Exec(DrushSiteInstall, projectPath, TRUE)

\* a run with Colima, started by the installer, that exited 0
C15_Witness ==
    /\ exitCode = 0
    /\ dockerProvider = "colima"
    /\ Has(log, Exec(ColimaStart, Cwd, TRUE))
    /\ Has(log, Return("checkColimaRunning", FALSE))

---------------------------------------------------------------------------
(* C16: a backend that is not running.  With Docker Desktop the failed     *)
(* `docker info` is reported as a warning, the user is told to start       *)
(* Docker Desktop, no command is invoked after it and the run exits 1.     *)
(* With Colima the failed `colima status` is reported as a warning and     *)
(* main calls startColima: when Colima is still not running at its status  *)
(* query, `colima start` is invoked, once in the run; main then asks for   *)
(* the status again and goes on to the DDEV step when Colima is running,   *)
(* and exits 1 telling the user to start it manually when it is not.       *)

DockerInfo == <<"docker", "info">>

\* event i is main's first Colima running check returning false
FirstColimaCheckFails(i) ==
    /\ log[i] = Return("checkColimaRunning", FALSE)
    /\ \A j \in 1..(i - 1) : log[j] # Return("checkColimaRunning", FALSE)

\* event r, a running check returning true, is followed by the DDEV step
ThenDDEV(r) ==
    IF r = Len(log) THEN pc = "installDDEV"
    ELSE \/ log[r + 1] = Say("success", "DDEV is already installed")
         \/ (IsExec(log[r + 1]) /\ log[r + 1].cmd = BrewInstallDDEV)

C16_BackendNotRunning ==
    /\ \A i \in DOMAIN log :
        (IsExec(log[i]) /\ log[i].cmd = DockerInfo /\ ~log[i].ok) =>
            /\ log[i + 1] = Say("warning", "Docker is not running")
            /\ log[i + 2] = Return("checkDockerRunning", FALSE)
            /\ log[i + 3] = Say("error", "Please start Docker Desktop")
            /\ \A j \in (i + 1)..Len(log) : ~IsExec(log[j])
            /\ pc = "exited" /\ exitCode = 1
    /\ \A i \in DOMAIN log :
        FirstColimaCheckFails(i) =>
            /\ log[i - 1] = Say("warning", "Colima is not running")
            /\ i = Len(log) => pc = "startColima"
            /\ i < Len(log) =>
                \* startColima has run: its status query, then the start
                /\ IsExec(log[i + 1]) /\ log[i + 1].cmd = <<"colima", "status">>
                /\ CountIn(log, ColimaStart) = (IF log[i + 1].ok THEN 0 ELSE 1)
                /\ ~log[i + 1].ok =>
                    IsExec(log[i + 2]) /\ log[i + 2].cmd = ColimaStart
                /\ \E s \in (i + 2)..Len(log) :
                    /\ log[s] = Return("startColima", TRUE)
                    /\ s = Len(log) => pc = "recheckColima"
                    /\ s < Len(log) =>
                        \* main has asked for the status again
                        /\ IsExec(log[s + 1])
                        /\ log[s + 1].cmd = <<"colima", "status">>
                        /\ IF log[s + 1].ok
                           THEN /\ log[s + 3] = Return("checkColimaRunning", TRUE)
                                /\ ThenDDEV(s + 3)
                           ELSE /\ log[s + 3] = Return("checkColimaRunning", FALSE)
                                /\ log[s + 4] = Say("error",
                                     "Failed to start Colima. Please start it manually")
                                /\ log[s + 5] = Exit(1)
                                /\ pc = "exited" /\ exitCode = 1
    /\ \A i \in DOMAIN log :
        (IsExec(log[i]) /\ log[i].cmd = ColimaStart) =>
            \E j \in 1..(i - 2) : FirstColimaCheckFails(j)

\* Colima was not running, `colima start` brought it up and the run went on
\* to the project-name prompt
C16_Witness ==
    /\ Has(log, Return("checkColimaRunning", FALSE))
    /\ Has(log, Exec(ColimaStart, Cwd, TRUE))
    /\ Has(log, Return("checkColimaRunning", TRUE))
    /\ Has(log, Return("installDDEV", TRUE))
    /\ pc = "initDrupalProject"

---------------------------------------------------------------------------
(* C17: when `brew` is not on the search path the run ends with exit code  *)
(* 1 at the Homebrew check, after the prerequisite report: no install      *)
(* command, no start command, no scaffold command, no project-name prompt  *)
(* and no file operation ever occurs.                                      *)
C17_MissingHomebrewIsFatal ==
    ~tools.brew =>
        /\ pc \in {"selectDockerProvider", "checkPrerequisites",
                    "checkHomebrew", "exited"}
        /\ \A j \in DOMAIN log :
            ~StateChanging(log[j]) /\ ~IsNamePrompt(log[j]) /\ ~IsFileOp(log[j])
        /\ pc = "exited" =>
            /\ exitCode = 1
            /\ log[Len(log)] = Exit(1)
            /\ log[Len(log) - 1] = Return("checkHomebrew", FALSE)
            /\ \E j \in 1..(Len(log) - 2) :
                log[j] = Say("error", "prereq homebrew")

\* Docker Desktop was chosen on a machine without Homebrew: the run ended
C17_Witness ==
    /\ ~tools.brew
    /\ dockerProvider = "docker"
    /\ Has(log, Return("checkHomebrew", FALSE))
    /\ pc = "exited"
    /\ exitCode = 1

---------------------------------------------------------------------------
(* C18: no retry and no rollback.                                          *)

\* every command the installer invokes: none deletes, restores or uninstalls
KnownCommands ==
    QueryCommands \cup ProjectCommands
    \cup {BrewInstallDocker, BrewInstallColima, BrewInstallDDEV, ColimaStart,
          ComposerCreateProject}

\* the effects of the steps that completed are in place, and nothing the
\* installer does removes anything
EffectsRemain ==
    /\ \A i \in DOMAIN log :
        /\ log[i].kind \in {"prompt", "print", "return", "exec", "mkdir",
                             "read", "write", "exit"}
        /\ IsExec(log[i]) => log[i].cmd \in KnownCommands
        /\ (IsExec(log[i]) /\ log[i].ok) =>
            /\ log[i].cmd = BrewInstallDocker => tools.dockerPkg
            /\ log[i].cmd = BrewInstallColima => tools.colima
            /\ log[i].cmd = BrewInstallDDEV => tools.ddev
            /\ log[i].cmd = ColimaStart => tools.colimaUp
            /\ log[i].cmd = ComposerCreateProject =>
                fs.projectDir /\ projectPath = log[i].arg
            /\ log[i].cmd = DdevConfig => fs.ddevDir
        /\ (log[i].kind = "mkdir" /\ log[i].ok) => fs.syncDir
        /\ (log[i].kind = "write" /\ log[i].ok) =>
            /\ log[i].arg = SettingsPath =>
                fs.settingsExists /\ fs.settings = log[i].text
            /\ log[i].arg = IndicatorPath => fs.indicatorYml
            /\ log[i].arg = SettingsConfigPath => fs.settingsYml

\* C18 as stated: no external command at all is invoked again after it
\* exited non-zero, and the effects of the completed steps remain
C18_NoCommandRepeated ==
    /\ \A i \in DOMAIN log : \A j \in (i + 1)..Len(log) :
        (IsExec(log[i]) /\ ~log[i].ok /\ IsExec(log[j])) =>
            log[j].cmd # log[i].cmd
    /\ EffectsRemain

\* C18 as amended: no install, start, scaffold or configuration command is
\* invoked a second time, after a failure or otherwise; only the status
\* queries `brew list docker` and `colima status` are made again after they
\* exited non-zero; the effects of the completed steps remain at exit
C18_NoRetryNoRollback ==
    /\ \A i \in DOMAIN log : \A j \in (i + 1)..Len(log) :
        (IsExec(log[i]) /\ IsExec(log[j]) /\ log[j].cmd = log[i].cmd) =>
            /\ ~StateChanging(log[i])
            /\ log[i].cmd \in {<<"brew", "list", "docker">>, <<"colima", "status">>}
    /\ \A i \in DOMAIN log :
        (StateChanging(log[i]) /\ ~log[i].ok
         /\ log[i].cmd \notin {BrewInstallDocker, BrewInstallColima, ColimaStart,
                                DrushGenu, DrushGenc}) =>
            \A j \in (i + 1)..Len(log) : log[j].kind \in {"print", "return", "exit"}
    /\ EffectsRemain

\* the site install failed on a machine where the installer had installed
\* Docker Desktop, created the project and rewritten the settings
C18_Witness ==
    /\ Has(log, Exec(BrewInstallDocker, Cwd, TRUE))
    /\ Has(log, Exec(DrushSiteInstall, projectPath, FALSE))
    /\ \E i \in DOMAIN log : IsSettingsWrite(log[i]) /\ log[i].ok
    /\ tools.dockerPkg /\ fs.projectDir /\ fs.syncDir /\ fs.settingsYml
    /\ exitCode = 1

---------------------------------------------------------------------------
(* C19: for every accepted project name the directory handed to the        *)
(* scaffold command is a child of the current working directory, named by  *)
(* the normalized project name, also for names holding path separators or  *)
(* ".." segments.                                                          *)
C19_ProjectIsChildOfCwd ==
    \A i \in DOMAIN log :
        IsScaffold(log[i]) =>
            /\ Len(log[i].arg) = Len(Cwd) + 1
            /\ SubSeq(log[i].arg, 1, Len(Cwd)) = Cwd
            /\ \E j \in 1..(i - 1) :
                IsCreating(log[j]) /\ log[i].arg[Len(Cwd) + 1] = log[j].text

---------------------------------------------------------------------------
(* C20: URL discovery never ends the run with an error: once getSiteURL    *)
(* has been called, whatever it extracted, the run goes on to the final    *)
(* instructions and exits 0.  The instructions show the extracted URL when *)
(* it is non-empty and tell the user to run 'ddev describe' otherwise;     *)
(* they never show an empty URL.                                           *)

Visit(url) == Say("info", "1. Visit your site: " \o url)
RunDescribe == Say("info", "1. Run 'ddev describe' to get your site URL")

C20_URLFailureIsAdvisory ==
    /\ exitCode \in {NoExit, 0}
    /\ ~Has(log, Visit(""))
    /\ \A i \in DOMAIN log :
        IsDescribe(log[i]) =>
            /\ pc \in {"displayFinalInstructions", "exited"}
            /\ (log[i].ok /\ HasURL(log[i].out)) => siteURL = URLIn(log[i].out)
            /\ pc = "exited" =>
                /\ exitCode = 0
                /\ \E j \in (i + 1)..Len(log) : log[j] = Completed
                /\ IF siteURL # ""
                   THEN Has(log, Visit(siteURL)) /\ ~Has(log, RunDescribe)
                   ELSE /\ Has(log, RunDescribe)
                        /\ \A u \in {ExampleURL, OtherURL} : ~Has(log, Visit(u))

\* `ddev describe` failed; the instructions point to it and the run exited 0
C20_Witness ==
    /\ \E i \in DOMAIN log : IsDescribe(log[i]) /\ ~log[i].ok
    /\ Has(log, RunDescribe)
    /\ pc = "exited"
    /\ exitCode = 0

---------------------------------------------------------------------------
(* C21: the three prompts (backend choice, project name, content           *)
(* generation) each consume exactly one line of standard input, in that    *)
(* order: the k-th prompt of a run is answered by the k-th input line when *)
(* the input holds that many lines, and reads end of input otherwise,      *)
(* whether the lines arrive one at a time or are all there before the      *)
(* first prompt reads.                                                     *)

IsPrompt(e) == e.kind = "prompt"

\* the lines standard input held when the run began
InputLines == Consumed(log) + stdinLeft

C21_KthPromptReadsKthLine ==
    \A i \in DOMAIN log :
        IsPrompt(log[i]) =>
            LET k == Cardinality({j \in 1..i : IsPrompt(log[j])}) IN
            /\ log[i].cmd = <<(<<"provider", "name", "content">>)[k]>>
            /\ IF k <= InputLines
               THEN log[i].line = k /\ log[i].took = 1
               ELSE log[i].line = 0 /\ log[i].text = <<>>

---------------------------------------------------------------------------
(* C22: a failed `brew install docker` or `brew install colima` does not   *)
(* end the run: installDocker and installColima return false, main ignores *)
(* it and goes on to the running check.  A run that ends at this stage,    *)
(* before the DDEV step, exits 1 after a running check that returned       *)
(* false: the first one with Docker Desktop, the one after the single      *)
(* `colima start` with Colima.  A running check that returns true is       *)
(* followed by the DDEV step.                                              *)

IsBackendInstall(e) ==
    IsExec(e) /\ e.cmd \in {BrewInstallDocker, BrewInstallColima}

BackendInstaller(e) ==
    IF e.cmd = BrewInstallDocker THEN "installDocker" ELSE "installColima"

RunningQuery(e) ==
    IF e.cmd = BrewInstallDocker THEN DockerInfo ELSE <<"colima", "status">>

RunningCheck(e) ==
    IF e.cmd = BrewInstallDocker THEN "checkDockerRunning"
    ELSE "checkColimaRunning"

C22_InstallResultIgnored ==
    \A i \in DOMAIN log :
        (IsBackendInstall(log[i]) /\ ~log[i].ok) =>
            /\ log[i + 2] = Return(BackendInstaller(log[i]), FALSE)
            /\ Len(log) = i + 2 =>
                pc = "checkBackendRunning" /\ exitCode = NoExit
            /\ Len(log) > i + 2 =>
                /\ IsExec(log[i + 3]) /\ log[i + 3].cmd = RunningQuery(log[i])
                /\ log[i + 5] = Return(RunningCheck(log[i]), log[i + 3].ok)
                /\ log[i + 3].ok => ThenDDEV(i + 5)
            /\ (pc = "exited"
                /\ \A j \in DOMAIN log :
                    ~(log[j].kind = "return" /\ log[j].cmd = <<"installDDEV">>)) =>
                /\ exitCode = 1
                /\ log[Len(log)] = Exit(1)
                /\ log[Len(log) - 2] = Return(RunningCheck(log[i]), FALSE)
                /\ log[i].cmd = BrewInstallColima =>
                    /\ CountIn(log, ColimaStart) = 1
                    /\ Has(log, Return("startColima", TRUE))

\* `brew install docker` failed, Docker was running all the same and the
\* run went on to the project-name prompt
C22_Witness ==
    /\ Has(log, Exec(BrewInstallDocker, Cwd, FALSE))
    /\ Has(log, Return("installDocker", FALSE))
    /\ Has(log, Return("checkDockerRunning", TRUE))
    /\ pc = "initDrupalProject"

---------------------------------------------------------------------------
(* C23: setupDrupalSettings creates config/sync, reads settings.ddev.php,  *)
(* writes it back, writes the indicator payload and writes the settings    *)
(* payload, in that order, each only when the one before succeeded.  When  *)
(* one fails the function returns the error and the run exits 1 with no    *)
(* further file operation: after a failed read or write of the settings    *)
(* file neither payload is written and config/sync remains; after a failed *)
(* first payload write the second is not attempted.                        *)

SetupOps ==
    << [kind |-> "mkdir", arg |-> ConfigSyncPath],
       [kind |-> "read", arg |-> SettingsPath],
       [kind |-> "write", arg |-> SettingsPath],
       [kind |-> "write", arg |-> IndicatorPath],
       [kind |-> "write", arg |-> SettingsConfigPath] >>

FileOps == SelectSeq(log, IsFileOp)

C23_SetupOrder ==
    LET ops == FileOps
        n == Len(ops)
    IN
    /\ n <= Len(SetupOps)
    /\ \A k \in 1..n :
        /\ ops[k].kind = SetupOps[k].kind
        /\ ops[k].arg = SetupOps[k].arg
        /\ k < n => ops[k].ok
    /\ n >= 4 => ops[4].text = configIndicatorYML
    /\ n = 5 => ops[5].text = configSettingsYML
    /\ n >= 1 =>
        IF ops[n].ok
        THEN /\ n = Len(SetupOps)
             /\ Has(log, Return("setupDrupalSettings", TRUE))
             /\ fs.syncDir /\ fs.indicatorYml /\ fs.settingsYml
        ELSE /\ Has(log, Return("setupDrupalSettings", FALSE))
             /\ log[Len(log)] = Exit(1)
             /\ pc = "exited" /\ exitCode = 1
             /\ n >= 2 => fs.syncDir
             /\ n <= 3 => ~fs.indicatorYml /\ ~fs.settingsYml
             /\ n = 4 => ~fs.settingsYml

\* the settings file could not be written: config/sync is there, the
\* payloads are not, and the run exited 1
C23_Witness ==
    /\ Len(FileOps) = 3
    /\ ~FileOps[3].ok
    /\ fs.syncDir /\ ~fs.indicatorYml
    /\ exitCode = 1

---------------------------------------------------------------------------
(* C24: the settings rewrite is idempotent: the content it writes holds    *)
(* the fragment "sites/default/files/sync" nowhere, so that rewriting it   *)
(* again leaves it as it is; content that does not hold the fragment is    *)
(* written back byte for byte.                                             *)
C24_RewriteIdempotent ==
    \A i \in DOMAIN log : \A j \in DOMAIN log :
        (IsSettingsRead(log[i]) /\ IsSettingsWrite(log[j])) =>
            LET r == log[i].text
                w == log[j].text
            IN
            /\ Occurrences(w) = {}
            /\ RewriteSettings(w) = w
            /\ Occurrences(r) = {} => w = r
            /\ (log[j].ok /\ Occurrences(r) = {}) => fs.settings = r

\* the head of the fragment, the fragment and its tail in a row: the
\* replacement was written between the head and the tail
C24_Witness ==
    \E i \in DOMAIN log : \E j \in DOMAIN log :
        /\ IsSettingsRead(log[i])
        /\ log[i].text = SubSeq(OldFragment, 1, 20) \o OldFragment
                          \o SubSeq(OldFragment, 21, 24)
        /\ IsSettingsWrite(log[j]) /\ log[j].ok
        /\ log[j].text = SubSeq(OldFragment, 1, 20) \o NewFragment
                          \o SubSeq(OldFragment, 21, 24)
        /\ fs.settings = log[j].text

=============================================================================
